---- MODULE Spec2Model ----
(***************************************************************************)
(* Model of separate_rgb_channels.py: process_and_separate_image (the      *)
(* classification of an image's mode, bit depth and alpha usage, the loss  *)
(* warnings, the grayscale rejection and the R/G/B split) and              *)
(* process_folder (the per-file loop around it).                           *)
(*                                                                         *)
(* Python strings that the code inspects character by character (mode      *)
(* strings, file names) are sequences of one-character strings, so that    *)
(* startswith, "in", upper/lower and os.path.splitext are computed the way *)
(* the code computes them.  bit_depth is written as a string ("8", "16",   *)
(* "32", "float32", "None") because the code mixes integers with the       *)
(* string "float32".                                                       *)
(***************************************************************************)
EXTENDS Integers, Sequences, FiniteSets, TLC

VARIABLES
    \* ---- process_and_separate_image: arguments, locals, effects ----
    pc,            \* position in process_and_separate_image
    file_name,     \* os.path.basename(image_path)
    file_format,   \* format hint derived from the extension
    mode,          \* img.mode
    bit_depth,     \* inferred bit depth
    has_alpha,     \* "A" in mode.upper()
    alpha_arr,     \* samples of the plane scanned as alpha (<<>> = not scanned)
    alpha_status,  \* the alpha status message, as a sequence of words
    warnings,      \* WARNING lines printed, in order
    img_px,        \* pixel rows of the decoded 16-bit RGB image (<<>> = not read)
    arr,           \* np.array(img, dtype=np.uint16): <<r, g, b>> per pixel
    out,           \* channel files saved by this invocation, in order
    err,           \* the exception that ended the invocation ("none" if none)
    trace,         \* the steps executed so far, in order
    \* ---- process_folder ----
    listing,       \* os.listdir(folder_path)
    idx,           \* index of the current fname in listing
    pcF,           \* position in process_folder
    attempted,     \* indices of the files whose body was entered, in order
    fs,            \* files written below folder_path: [dir, name, src]
    clobbered      \* paths written by one source file and rewritten by another

imgVars == <<pc, file_name, file_format, mode, bit_depth, has_alpha, alpha_arr,
             alpha_status, warnings, img_px, arr, out, err, trace>>
dirVars == <<listing, idx, pcF, attempted, fs, clobbered>>
vars == <<pc, file_name, file_format, mode, bit_depth, has_alpha, alpha_arr,
          alpha_status, warnings, img_px, arr, out, err, trace,
          listing, idx, pcF, attempted, fs, clobbered>>

----------------------------------------------------------------------------
\* Bounds of the model.

\* Largest number of pixels of an image.
MaxPix == 2
\* Largest number of entries of the directory listing.
MaxFiles == 2

----------------------------------------------------------------------------
\* Python string operations, on sequences of one-character strings.

LowerLetters ==
    <<"a","b","c","d","e","f","g","h","i","j","k","l","m",
      "n","o","p","q","r","s","t","u","v","w","x","y","z">>
UpperLetters ==
    <<"A","B","C","D","E","F","G","H","I","J","K","L","M",
      "N","O","P","Q","R","S","T","U","V","W","X","Y","Z">>

\* Position of c in the tuple t, 0 when absent.
IndexIn(c, t) ==
    IF \E i \in 1..Len(t) : t[i] = c
    THEN CHOOSE i \in 1..Len(t) : t[i] = c
    ELSE 0

UpperChar(c) ==
    LET i == IndexIn(c, LowerLetters) IN IF i > 0 THEN UpperLetters[i] ELSE c
LowerChar(c) ==
    LET i == IndexIn(c, UpperLetters) IN IF i > 0 THEN LowerLetters[i] ELSE c

\* str.upper(), str.lower()
Upper(s) == [i \in 1..Len(s) |-> UpperChar(s[i])]
Lower(s) == [i \in 1..Len(s) |-> LowerChar(s[i])]

\* s.startswith(p)
StartsWith(s, p) == Len(p) <= Len(s) /\ SubSeq(s, 1, Len(p)) = p

\* sub in s
Contains(sub, s) ==
    \E i \in 1..(Len(s) - Len(sub) + 1) : SubSeq(s, i, i + Len(sub) - 1) = sub

\* Index of the last "." of s, 0 when there is none (str.rfind + 1).
LastDot(s) ==
    IF \E i \in 1..Len(s) : s[i] = "."
    THEN CHOOSE i \in 1..Len(s) :
            s[i] = "." /\ \A j \in (i+1)..Len(s) : s[j] # "."
    ELSE 0

\* os.path.splitext on a file name without directory part: the extension
\* starts at the last dot, unless only dots precede that dot.
SplitExt(s) ==
    LET d == LastDot(s) IN
    IF d > 0 /\ \E j \in 1..(d-1) : s[j] # "."
    THEN <<SubSeq(s, 1, d-1), SubSeq(s, d, Len(s))>>
    ELSE <<s, <<>> >>

\* s[1:]
Tail1(s) == SubSeq(s, 2, Len(s))

----------------------------------------------------------------------------
\* Inputs: mode strings, file names, pixel data.

Sfx16 == <<";","1","6">>
Sfx32 == <<";","3","2">>

Mode1     == <<"1">>
ModeL     == <<"L">>
ModeLA    == <<"L","A">>
ModeLa    == <<"L","a">>
ModeP     == <<"P">>
ModePA    == <<"P","A">>
ModeRGB   == <<"R","G","B">>
ModeRGBA  == <<"R","G","B","A">>
ModeRGBX  == <<"R","G","B","X">>
ModeRGBa  == <<"R","G","B","a">>
ModeCMYK  == <<"C","M","Y","K">>
ModeYCbCr == <<"Y","C","b","C","r">>
ModeLAB   == <<"L","A","B">>
ModeHSV   == <<"H","S","V">>
ModeI     == <<"I">>
ModeF     == <<"F">>
ModeI16   == <<"I",";","1","6">>
ModeI16L  == <<"I",";","1","6","L">>
ModeI16B  == <<"I",";","1","6","B">>
ModeI16N  == <<"I",";","1","6","N">>
ModeRGB16 == <<"R","G","B",";","1","6">>

\* The channel layouts Pillow knows.
BaseModes ==
    {Mode1, ModeL, ModeLA, ModeLa, ModeP, ModePA, ModeRGB, ModeRGBA, ModeRGBX,
     ModeRGBa, ModeCMYK, ModeYCbCr, ModeLAB, ModeHSV, ModeI, ModeF}

\* The mode strings img.mode ranges over: a channel layout, alone or with the
\* ";16" / ";32" depth marker that the code looks for, plus Pillow's
\* byte-order variants of 16-bit integer grayscale.
Modes ==
    {b \o s : b \in BaseModes, s \in {<< >>, Sfx16, Sfx32}}
        \cup {ModeI16L, ModeI16B, ModeI16N}

\* File names the function is called with / the folder may list.
FileNames ==
    { <<"a",".","p","n","g">>,
      <<"a",".","P","N","G">>,
      <<"a",".","b",".","t","i","f">>,
      <<"c",".","j","p","e","g">>,
      <<"a","_","p","n","g">>,
      <<"n",".","t","x","t">> }

\* Samples of a plane that is scanned as alpha.
AlphaSamples == {0, 128, 255}
\* Samples of a 16-bit-per-channel plane.
Samples16 == {256, 65535}

\* All planes of 1..MaxPix samples.
Planes == UNION {[1..n -> AlphaSamples] : n \in 1..MaxPix}
\* All 16-bit RGB pixel buffers of 1..MaxPix pixels, <<r, g, b>> per pixel.
Pixels16 == UNION {[1..n -> Samples16 \X Samples16 \X Samples16] : n \in 1..MaxPix}

----------------------------------------------------------------------------
\* process_and_separate_image: the computations.

\* The format hint printed for the file.
FileFormat(file_ext) ==
    IF file_ext \in {<<".","j","p","g">>, <<".","j","p","e","g">>} THEN "JPEG"
    ELSE IF file_ext = <<".","p","n","g">> THEN "PNG"
    ELSE IF file_ext \in {<<".","t","i","f">>, <<".","t","i","f","f">>} THEN "TIFF"
    ELSE "Unknown/Other"

\* The inferred bit depth of a mode string.
InferBitDepth(m) ==
    IF Contains(Sfx16, m) THEN "16"
    ELSE IF Contains(Sfx32, m) THEN "32"
    ELSE IF StartsWith(m, <<"I">>) THEN "32"
    ELSE IF StartsWith(m, <<"F">>) THEN "float32"
    ELSE "8"

\* has_alpha = ("A" in mode.upper())
HasAlphaFlag(m) == Contains(<<"A">>, Upper(m))

StatusNoAlpha     == <<"No","alpha","channel.">>
StatusTransparent == <<"Alpha","channel","is","fully","transparent","(empty).">>
StatusOpaque      == <<"Alpha","channel","is","fully","opaque","(empty).">>
StatusInUse       == <<"Alpha","channel","is","in","use","(varying","transparency).">>

\* A scan that takes the first sample for the minimum.
ArrMinMut(a) == a[1]

\* alpha_arr.min(), alpha_arr.max()
ArrMin(a) == CHOOSE x \in {a[i] : i \in 1..Len(a)} : \A j \in 1..Len(a) : x <= a[j]
ArrMax(a) == CHOOSE x \in {a[i] : i \in 1..Len(a)} : \A j \in 1..Len(a) : x >= a[j]

\* The status message chosen from the scanned plane.
AlphaStatus(a) ==
    LET amin == ArrMin(a)
        amax == ArrMax(a)
    IN  IF amin = amax
        THEN IF amin = 0 THEN StatusTransparent ELSE StatusOpaque
        ELSE StatusInUse

\* Condition (a) of the loss warnings.
BitDepthLoss(depth, m) ==
    depth \in {"16", "32", "float32"} /\ ~StartsWith(m, ModeRGB)

\* Condition (b) of the loss warnings.
AlphaLoss(flag, status) == flag /\ Contains(<<"in","use">>, status)

\* The two checks in the opposite order.
LossWarningsMut(depth, m, flag, status) ==
    (IF AlphaLoss(flag, status) THEN <<"AlphaDiscard">> ELSE << >>)
        \o (IF BitDepthLoss(depth, m) THEN <<"BitDepthLoss">> ELSE << >>)

\* The WARNING lines, in the order they are printed.
LossWarnings(depth, m, flag, status) ==
    (IF BitDepthLoss(depth, m) THEN <<"BitDepthLoss">> ELSE << >>)
        \o (IF AlphaLoss(flag, status) THEN <<"AlphaDiscard">> ELSE << >>)

\* The test that raises the grayscale ValueError.
IsGrayscale(m) == m \in {ModeL, ModeLA, ModeI, ModeI16, ModeF}

\* A test that takes every mode with a 16-bit marker for 16-bit RGB.
IsRGB16Mut(m) == Contains(Sfx16, m)

\* The test that selects the 16-bit path.
IsRGB16(m) == m = ModeRGB16

\* A read of the buffer as 8-bit samples.
ToUint16Mut(v) == v % 256

\* np.array(img, dtype=np.uint16) on one sample.
ToUint16(v) == v % 65536

\* arr[..., k] for one pixel row.
ChannelOf(row, k) == row[k]

Channels == <<"R", "G", "B">>

\* The file name of channel k.
ArtifactName(base_name, k, lossless) ==
    base_name \o <<"_", Channels[k]>>
        \o (IF lossless THEN <<"_","1","6","b","i","t">> ELSE << >>)
        \o <<".","p","n","g">>

\* The three file names written for an image, in the order they are saved.
ArtifactNames(fname, m) ==
    [k \in 1..3 |-> ArtifactName(SplitExt(fname)[1], k, IsRGB16(m))]

----------------------------------------------------------------------------
\* process_and_separate_image: the steps.

\* The locals not yet assigned, the effects not yet made.
LocalsInit ==
    /\ file_format = "None"
    /\ mode = << >>
    /\ bit_depth = "None"
    /\ has_alpha = FALSE
    /\ alpha_arr = << >>
    /\ alpha_status = StatusNoAlpha
    /\ warnings = << >>
    /\ img_px = << >>
    /\ arr = << >>
    /\ out = << >>
    /\ err = "none"
    /\ trace = << >>

\* The function leaves with exception e.
Raise(e) ==
    /\ err' = e
    /\ pc' = "raised"
    /\ trace' = Append(trace, "raise")

\* os.makedirs(output_folder) succeeds, Image.open succeeds: the format hint
\* and the mode are known.
Open ==
    /\ pc = "start"
    /\ file_format' = FileFormat(Lower(SplitExt(file_name)[2]))
    /\ \E m \in Modes : mode' = m
    /\ pc' = "opened"
    /\ trace' = Append(trace, "open")
    /\ UNCHANGED <<file_name, bit_depth, has_alpha, alpha_arr, alpha_status,
                   warnings, img_px, arr, out, err>>
    /\ UNCHANGED dirVars

\* os.makedirs(output_folder) raises.
MakedirsFails ==
    /\ pc = "start"
    /\ Raise("MakedirsError")
    /\ UNCHANGED <<file_name, file_format, mode, bit_depth, has_alpha, alpha_arr,
                   alpha_status, warnings, img_px, arr, out>>
    /\ UNCHANGED dirVars

\* Image.open raises: the file is corrupt or not an image.
OpenFails ==
    /\ pc = "start"
    /\ Raise("DecodeError")
    /\ UNCHANGED <<file_name, file_format, mode, bit_depth, has_alpha, alpha_arr,
                   alpha_status, warnings, img_px, arr, out>>
    /\ UNCHANGED dirVars

\* The bit depth is inferred from the mode string.
InferDepth ==
    /\ pc = "opened"
    /\ bit_depth' = InferBitDepth(mode)
    /\ pc' = "depth"
    /\ trace' = Append(trace, "depth")
    /\ UNCHANGED <<file_name, file_format, mode, has_alpha, alpha_arr,
                   alpha_status, warnings, img_px, arr, out, err>>
    /\ UNCHANGED dirVars

\* The alpha check: with has_alpha, the last band is read and scanned.
CheckAlpha ==
    /\ pc = "depth"
    /\ has_alpha' = HasAlphaFlag(mode)
    /\ IF has_alpha'
       THEN \E a \in Planes :
                /\ alpha_arr' = a
                /\ alpha_status' = AlphaStatus(a)
       ELSE UNCHANGED <<alpha_arr, alpha_status>>
    /\ pc' = "alpha"
    /\ trace' = Append(trace, "alpha")
    /\ UNCHANGED <<file_name, file_format, mode, bit_depth, warnings, img_px,
                   arr, out, err>>
    /\ UNCHANGED dirVars

\* img.split() raises while loading the pixel data (truncated file).
AlphaLoadFails ==
    /\ pc = "depth"
    /\ HasAlphaFlag(mode)
    /\ has_alpha' = TRUE
    /\ Raise("DecodeError")
    /\ UNCHANGED <<file_name, file_format, mode, bit_depth, alpha_arr,
                   alpha_status, warnings, img_px, arr, out>>
    /\ UNCHANGED dirVars

\* The loss warnings are printed.
Warn ==
    /\ pc = "alpha"
    /\ warnings' = warnings \o LossWarnings(bit_depth, mode, has_alpha, alpha_status)
    /\ pc' = "warned"
    /\ trace' = Append(trace, "warn")
    /\ UNCHANGED <<file_name, file_format, mode, bit_depth, has_alpha, alpha_arr,
                   alpha_status, img_px, arr, out, err>>
    /\ UNCHANGED dirVars

\* The grayscale check: raises ValueError, or goes on to the split.
GrayCheck ==
    /\ pc = "warned"
    /\ IF IsGrayscale(mode)
       THEN /\ err' = "GrayscaleError"
            /\ pc' = "raised"
       ELSE /\ err' = err
            /\ pc' = "split"
    /\ trace' = Append(trace, "gray")
    /\ UNCHANGED <<file_name, file_format, mode, bit_depth, has_alpha, alpha_arr,
                   alpha_status, warnings, img_px, arr, out>>
    /\ UNCHANGED dirVars

\* 16-bit path: the pixel buffer is read as unsigned 16-bit samples.
Load16 ==
    /\ pc = "split"
    /\ IsRGB16(mode)
    /\ \E px \in Pixels16 :
        /\ img_px' = px
        /\ arr' = [i \in 1..Len(px) |-> [k \in 1..3 |-> ToUint16(px[i][k])]]
    /\ pc' = "save16"
    /\ trace' = Append(trace, "load16")
    /\ UNCHANGED <<file_name, file_format, mode, bit_depth, has_alpha, alpha_arr,
                   alpha_status, warnings, out, err>>
    /\ UNCHANGED dirVars

\* General path: img.convert("RGB") and split into three 8-bit bands.
Convert ==
    /\ pc = "split"
    /\ ~IsRGB16(mode)
    /\ pc' = "save8"
    /\ trace' = Append(trace, "convert")
    /\ UNCHANGED <<file_name, file_format, mode, bit_depth, has_alpha, alpha_arr,
                   alpha_status, warnings, img_px, arr, out, err>>
    /\ UNCHANGED dirVars

\* np.array(img) / img.convert raises while loading the pixel data.
LoadFails ==
    /\ pc = "split"
    /\ Raise("DecodeError")
    /\ UNCHANGED <<file_name, file_format, mode, bit_depth, has_alpha, alpha_arr,
                   alpha_status, warnings, img_px, arr, out>>
    /\ UNCHANGED dirVars

\* The file saved for channel k.  On the 16-bit path it holds plane k of arr as
\* a 16-bit image; on the general path it holds band k of Pillow's 8-bit
\* conversion, whose sample values are not modelled (data is empty).
Artifact(k, lossless) ==
    [ name    |-> ArtifactName(SplitExt(file_name)[1], k, lossless),
      channel |-> Channels[k],
      bits    |-> IF lossless THEN 16 ELSE 8,
      data    |-> IF lossless
                  THEN [i \in 1..Len(arr) |-> ChannelOf(arr[i], k)]
                  ELSE << >> ]

\* The next of the three save calls succeeds; after the third the function
\* returns.
Save ==
    /\ pc \in {"save16", "save8"}
    /\ Len(out) < 3
    /\ out' = Append(out, Artifact(Len(out) + 1, pc = "save16"))
    /\ pc' = IF Len(out') = 3 THEN "done" ELSE pc
    /\ trace' = Append(trace, "save")
    /\ UNCHANGED <<file_name, file_format, mode, bit_depth, has_alpha, alpha_arr,
                   alpha_status, warnings, img_px, arr, err>>
    /\ UNCHANGED dirVars

\* A failing save call that leaves its file behind.
SaveFailsMut ==
    /\ pc \in {"save16", "save8"}
    /\ Len(out) < 3
    /\ out' = Append(out, Artifact(Len(out) + 1, pc = "save16"))
    /\ Raise("SaveError")
    /\ UNCHANGED <<file_name, file_format, mode, bit_depth, has_alpha, alpha_arr,
                   alpha_status, warnings, img_px, arr>>
    /\ UNCHANGED dirVars

\* The next save call raises OSError; the files already saved stay.
SaveFails ==
    /\ pc \in {"save16", "save8"}
    /\ Len(out) < 3
    /\ Raise("SaveError")
    /\ UNCHANGED <<file_name, file_format, mode, bit_depth, has_alpha, alpha_arr,
                   alpha_status, warnings, img_px, arr, out>>
    /\ UNCHANGED dirVars

\* The folder loop is not running.
DirIdle ==
    /\ listing = << >>
    /\ idx = 0
    /\ pcF = "idle"
    /\ attempted = << >>
    /\ fs = {}
    /\ clobbered = {}

\* process_and_separate_image is called on one file.
Init ==
    /\ pc = "start"
    /\ \E f \in FileNames : file_name = f
    /\ LocalsInit
    /\ DirIdle

Next ==
    \/ Open
    \/ MakedirsFails
    \/ OpenFails
    \/ InferDepth
    \/ CheckAlpha
    \/ AlphaLoadFails
    \/ Warn
    \/ GrayCheck
    \/ Load16
    \/ Convert
    \/ LoadFails
    \/ Save
    \/ SaveFails

Spec == Init /\ [][Next]_vars

----------------------------------------------------------------------------
\* process_folder: the computations.

ValidExtensions ==
    { <<".","j","p","g">>, <<".","j","p","e","g">>, <<".","p","n","g">>,
      <<".","t","i","f">>, <<".","t","i","f","f">> }

\* ext = os.path.splitext(fname)[1].lower()
ExtOf(fname) == Lower(SplitExt(fname)[2])

\* ext in valid_extensions
Recognized(fname) == ExtOf(fname) \in ValidExtensions

\* subfolder_name = f"{base_name}_{ext[1:]}"
SubfolderName(fname) == SplitExt(fname)[1] \o <<"_">> \o Tail1(ExtOf(fname))

\* The Python class of each way process_and_separate_image can raise
\* (UnidentifiedImageError is a subclass of OSError).
ExcClass(e) ==
    CASE e = "GrayscaleError" -> "ValueError"
      [] e = "MakedirsError"  -> "OSError"
      [] e = "DecodeError"    -> "OSError"
      [] e = "SaveError"      -> "OSError"
      [] OTHER                -> "none"

\* Every way a call process_and_separate_image(full_path, output_subfolder)
\* can end: the exception raised and the file names saved before it.
SeparateOutcomes(fname) ==
    {[err |-> e, files |-> << >>] : e \in {"MakedirsError", "DecodeError"}}
        \cup UNION {
            IF IsGrayscale(m)
            THEN {[err |-> "GrayscaleError", files |-> << >>]}
            ELSE {[err   |-> IF n = 3 THEN "none" ELSE "SaveError",
                   files |-> SubSeq(ArtifactNames(fname, m), 1, n)] : n \in 0..3}
            : m \in Modes }

\* The directory listings: distinct names, in any order.
Listings ==
    {l \in UNION {[1..n -> FileNames] : n \in 0..MaxFiles} :
        \A i, j \in 1..Len(l) : i # j => l[i] # l[j]}

\* The file system after src's processing wrote the files names into dir.
WriteFiles(dir, names, src) ==
    LET new == {names[i] : i \in 1..Len(names)} IN
    (fs \ {f \in fs : f.dir = dir /\ f.name \in new})
        \cup {[dir |-> dir, name |-> n, src |-> src] : n \in new}

\* The paths among dir/names that hold a file written for another source.
Overwritten(dir, names, src) ==
    {<<f.dir, f.name>> : f \in {g \in fs :
        /\ g.dir = dir
        /\ g.src # src
        /\ \E i \in 1..Len(names) : names[i] = g.name}}

----------------------------------------------------------------------------
\* process_folder: the steps.

\* process_and_separate_image is not being stepped through.
ImgIdle ==
    /\ pc = "idle"
    /\ file_name = << >>
    /\ LocalsInit

\* The loop takes a file name without a recognized extension and skips it.
SkipFile ==
    /\ pcF = "loop"
    /\ idx <= Len(listing)
    /\ ~Recognized(listing[idx])
    /\ idx' = idx + 1
    /\ UNCHANGED <<listing, pcF, attempted, fs, clobbered>>
    /\ UNCHANGED imgVars

\* The loop takes a file name with a recognized extension and enters the body.
EnterFile ==
    /\ pcF = "loop"
    /\ idx <= Len(listing)
    /\ Recognized(listing[idx])
    /\ attempted' = Append(attempted, idx)
    /\ pcF' = "mkdir"
    /\ UNCHANGED <<listing, idx, fs, clobbered>>
    /\ UNCHANGED imgVars

\* The listing is exhausted: process_folder returns.
LoopEnd ==
    /\ pcF = "loop"
    /\ idx > Len(listing)
    /\ pcF' = "end"
    /\ UNCHANGED <<listing, idx, attempted, fs, clobbered>>
    /\ UNCHANGED imgVars

\* os.makedirs(output_subfolder, exist_ok=True) succeeds.
MkDir ==
    /\ pcF = "mkdir"
    /\ pcF' = "copy"
    /\ UNCHANGED <<listing, idx, attempted, fs, clobbered>>
    /\ UNCHANGED imgVars

\* os.makedirs(output_subfolder, exist_ok=True) raises (no permission, or a
\* regular file has that name): no handler, the exception leaves process_folder.
MkDirFails ==
    /\ pcF = "mkdir"
    /\ pcF' = "raised"
    /\ UNCHANGED <<listing, idx, attempted, fs, clobbered>>
    /\ UNCHANGED imgVars

\* shutil.copy2 puts the original into the subfolder.
Copy ==
    /\ pcF = "copy"
    /\ LET fname == listing[idx] IN
        /\ fs' = WriteFiles(SubfolderName(fname), <<fname>>, fname)
        /\ clobbered' = clobbered \cup Overwritten(SubfolderName(fname), <<fname>>, fname)
    /\ pcF' = "process"
    /\ UNCHANGED <<listing, idx, attempted>>
    /\ UNCHANGED imgVars

\* shutil.copy2 raises PermissionError / OSError: printed, continue.
CopyFails ==
    /\ pcF = "copy"
    /\ idx' = idx + 1
    /\ pcF' = "loop"
    /\ UNCHANGED <<listing, attempted, fs, clobbered>>
    /\ UNCHANGED imgVars

\* The call of process_and_separate_image with its handlers: the files it
\* saved are in the subfolder; ValueError and OSError are printed and the loop
\* goes on, anything else leaves process_folder.
Process ==
    /\ pcF = "process"
    /\ LET fname == listing[idx] IN
       \E o \in SeparateOutcomes(fname) :
        /\ fs' = WriteFiles(SubfolderName(fname), o.files, fname)
        /\ clobbered' = clobbered \cup Overwritten(SubfolderName(fname), o.files, fname)
        /\ IF ExcClass(o.err) \in {"none", "ValueError", "OSError"}
           THEN /\ idx' = idx + 1
                /\ pcF' = "loop"
           ELSE /\ idx' = idx
                /\ pcF' = "raised"
    /\ UNCHANGED <<listing, attempted>>
    /\ UNCHANGED imgVars

\* process_folder is called on a folder.
InitFolder ==
    /\ ImgIdle
    /\ \E l \in Listings : listing = l
    /\ idx = 1
    /\ pcF = "loop"
    /\ attempted = << >>
    /\ fs = {}
    /\ clobbered = {}

NextFolder ==
    \/ SkipFile
    \/ EnterFile
    \/ LoopEnd
    \/ MkDir
    \/ MkDirFails
    \/ Copy
    \/ CopyFails
    \/ Process

SpecFolder == InitFolder /\ [][NextFolder]_vars

----------------------------------------------------------------------------
\* Notions the properties are stated with.

\* The step has been executed in this invocation.
InTrace(step) == \E i \in 1..Len(trace) : trace[i] = step

\* The invocation has ended.
Ended == pc \in {"done", "raised"}

WithDepth(bases) == {b \o s : b \in bases, s \in {<< >>, Sfx16, Sfx32}}

\* Grayscale family: L, LA, I, the 16-bit integer grayscale variants, F.
GrayscaleFamily ==
    {ModeL, ModeLA, ModeI, ModeI16, ModeI16L, ModeI16B, ModeI16N, ModeF}

\* RGB family: the layouts whose first three channels are R, G, B.
RGBFamily == WithDepth({ModeRGB, ModeRGBA, ModeRGBX, ModeRGBa})

\* The layouts whose last channel is an alpha channel (straight or
\* premultiplied).  LAB's channels are lightness, a and b: no alpha.
HasAlphaChannel(m) == m \in WithDepth({ModeLA, ModeLa, ModePA, ModeRGBA, ModeRGBa})

\* The file names without their extension, written out.
ExpectedBase(f) ==
    CASE f = <<"a",".","p","n","g">>         -> <<"a">>
      [] f = <<"a",".","P","N","G">>         -> <<"a">>
      [] f = <<"a",".","b",".","t","i","f">> -> <<"a",".","b">>
      [] f = <<"c",".","j","p","e","g">>     -> <<"c">>
      [] f = <<"a","_","p","n","g">>         -> <<"a","_","p","n","g">>
      [] f = <<"n",".","t","x","t">>         -> <<"n">>

Names8 ==
    << <<"_","R",".","p","n","g">>, <<"_","G",".","p","n","g">>,
       <<"_","B",".","p","n","g">> >>
Names16 ==
    << <<"_","R","_","1","6","b","i","t",".","p","n","g">>,
       <<"_","G","_","1","6","b","i","t",".","p","n","g">>,
       <<"_","B","_","1","6","b","i","t",".","p","n","g">> >>

\* The samples of the scanned plane.
AllSamples(v) == \A i \in 1..Len(alpha_arr) : alpha_arr[i] = v
SamplesDiffer == \E i, j \in 1..Len(alpha_arr) : alpha_arr[i] # alpha_arr[j]

\* The channels of the files saved so far are the first of R, G, B, in order.
ChannelPrefix == \A i \in 1..Len(out) : out[i].channel = Channels[i]

----------------------------------------------------------------------------
\* Properties of process_and_separate_image (specification Spec).

\* C1: for every mode of the grayscale family (L, LA, I, every 16-bit integer
\* grayscale variant, F) the invocation reaches the grayscale check after the
\* warnings and before any split step, fails there with the grayscale error,
\* and has written no channel file.
C1_GrayscaleFamilyRejected ==
    (mode \in GrayscaleFamily /\ InTrace("gray")) =>
        /\ err = "GrayscaleError"
        /\ pc = "raised"
        /\ out = << >>
        /\ trace = <<"open", "depth", "alpha", "warn", "gray">>

\* C2: an invocation that completes has written exactly three files, Red,
\* Green, Blue in this order, named {baseName}_{R|G|B}_16bit.png when the mode
\* is exactly "RGB;16" and {baseName}_{R|G|B}.png otherwise, baseName being
\* the file name without its extension; no file is ever written for alpha.
C2_ThreeNamedArtifacts ==
    /\ ChannelPrefix
    /\ Len(out) <= 3
    /\ pc = "done" =>
        /\ Len(out) = 3
        /\ \A k \in 1..3 :
            out[k].name = ExpectedBase(file_name)
                \o (IF mode = ModeRGB16 THEN Names16[k] ELSE Names8[k])

C2_Witness ==
    /\ pc = "done"
    /\ mode = ModeRGB16
    /\ file_name = <<"a",".","b",".","t","i","f">>
    /\ out[3].name = <<"a",".","b","_","B","_","1","6","b","i","t",".","p","n","g">>

C7_Lossless16 ==
    mode = ModeRGB16 =>
        /\ warnings = << >>
        /\ \A k \in 1..Len(out) :
            /\ out[k].bits = 16
            /\ out[k].data = [i \in 1..Len(img_px) |-> img_px[i][k]]

C7_Witness ==
    /\ pc = "done"
    /\ mode = ModeRGB16
    /\ img_px = << <<256, 65535, 256>>, <<65535, 256, 256>> >>
    /\ out[2].data = <<65535, 256>>

\* C8: has_alpha is true iff the mode has an alpha channel; a mode whose
\* channels are all non-alpha channels never has a plane scanned as alpha.
C8_HasAlphaIffAlphaChannel ==
    InTrace("alpha") =>
        /\ has_alpha <=> HasAlphaChannel(mode)
        /\ ~HasAlphaChannel(mode) => alpha_arr = << >>

\* C9: whenever the general path converts the image to 8-bit RGB and the
\* inferred bit depth is 16, 32 or float32, the bit-depth-loss warning has been
\* emitted before the conversion.
C9_WarnedBeforeConvert ==
    (InTrace("convert") /\ bit_depth \in {"16", "32", "float32"}) =>
        \E i \in 1..Len(warnings) : warnings[i] = "BitDepthLoss"

\* C10 as stated: after an invocation the channel files written are none,
\* unless it ended as Separated, and then all three.
C10_AllOrNothing ==
    Ended => IF pc = "done" THEN Len(out) = 3 /\ ChannelPrefix ELSE out = << >>

\* C10 amended: after an invocation the channel files written are all three
\* of R, G, B when it ended as Separated, none when it ended in a directory,
\* decode or grayscale error, and the files saved before the failing save (at
\* most two, R first) when it ended in an I/O error while saving a channel.
C10_ArtifactsByOutcome ==
    Ended =>
        /\ ChannelPrefix
        /\ pc = "done" <=> err = "none"
        /\ err = "none" => Len(out) = 3
        /\ err \in {"MakedirsError", "DecodeError", "GrayscaleError"} => out = << >>
        /\ err = "SaveError" => Len(out) < 3

C10_Witness ==
    /\ pc = "raised"
    /\ err = "SaveError"
    /\ Len(out) = 2

----------------------------------------------------------------------------
\* Properties of process_folder (specification SpecFolder).

\* C4: when process_folder has ended, every recognized file of the listing
\* has been attempted, and exactly once: no failure on a file (directory
\* creation, copy, decode, grayscale, write) keeps a later file from its turn.
C4_EveryFileAttemptedOnce ==
    pcF \in {"end", "raised"} =>
        \A i \in 1..Len(listing) :
            Recognized(listing[i]) =>
                Cardinality({k \in 1..Len(attempted) : attempted[k] = i}) = 1

\* C5: two distinct recognized file names that the loop has taken up get
\* distinct subfolders, and no file written for one is overwritten for another.
C5_DistinctSubfolders ==
    /\ \A m, n \in 1..Len(attempted) :
        LET f == listing[attempted[m]]
            g == listing[attempted[n]]
        IN  (Recognized(f) /\ Recognized(g) /\ f # g) =>
                SubfolderName(f) # SubfolderName(g)
    /\ clobbered = {}

====
